---- MODULE Spec2Model ----
(***************************************************************************)
(* Real-time collaboration layer of collab-notes                           *)
(* (backend/src/socket/index.ts): socket authentication, the presence      *)
(* registry roomPresence, the Socket.IO rooms, and the join-note,          *)
(* leave-note, note-update and disconnect handlers.  The two async         *)
(* handlers are split at their await points; everything between two awaits *)
(* runs as one step, as it does on the Node.js event loop.                 *)
(***************************************************************************)
EXTENDS Integers, Sequences, FiniteSets, TLC

\* ---------------------------------------------------------------- bounds
\* Number of async handlers (join-note, note-update) that may be suspended
\* at an await at the same time.
MaxPending == 2

\* The 500 ms timeouts of one page that may run at a time, and the
\* note-updated events that may be on their way to one client.
MaxResetTimers == 1
MaxInbox == 1

\* The calls of the auth API one browser may have in flight.
MaxCalls == 2

\* The events a socket that is not connected may hold in its send buffer.
MaxBuffer == 2

\* ------------------------------------------------------------ the universe
Sessions == {"s1", "s2"}
Users    == {"uA", "uB"}
NoteIds  == {"n1", "n2"}
\* The notes that clients edit and that the owner may delete over REST.
EditedNotes == {"n1"}
\* title?: string -- the payload either omits the title or carries one
Undefined == "undefined"
\* The note-update payloads the clients send: one without and one with a title.
Payloads ==
  {[content |-> "X", title |-> Undefined], [content |-> "Y", title |-> "T"]}

\* The JWT each connection presents in socket.handshake.auth.token resolves
\* to this payload.
TokenUser(s) == IF s = "s2" THEN "uB" ELSE "uA"
NameOf(u)    == IF u = "uA" THEN "Alice" ELSE "Bob"
EmailOf(u)   == IF u = "uA" THEN "a@x" ELSE "b@x"

NoUser == [userId |-> "", name |-> "", email |-> ""]

\* A user whose row is gone from the user table while a token signed for it
\* is still in circulation.
DeletedUser == "uC"

\* socket.handshake.auth.token: absent, not verifiable, or signed for a user
NoToken == [sig |-> "none", userId |-> ""]
TokensOf(s) ==
  {NoToken,
   [sig |-> "forged", userId |-> TokenUser(s)],
   [sig |-> "signed", userId |-> TokenUser(s)],
   [sig |-> "signed", userId |-> DeletedUser]}

\* The rows of the note table when the server starts.
InitialNotes ==
  [n \in NoteIds |->
     [ownerId |-> IF n = "n1" THEN "uA" ELSE "uB", title |-> "t0", content |-> "c0"]]

VARIABLES
  token,         \* per socket: the token its handshake presents
  process,       \* the server process: "running" | "crashed"
  conn,          \* per socket: "connecting" | "authenticating" | "stalled" |
                 \* "connected" | "refused" | "closed"
  socketUser,    \* socket.user, attached by the authentication middleware
  notes,         \* the note table: id -> row, for the ids that exist
  roomPresence,  \* Map noteId -> Map socketId -> PresenceUser (insertion ordered)
  ioRooms,       \* the Socket.IO adapter's rooms: noteId -> set of socket ids
  pending,       \* handlers suspended at an await
  emitted,       \* the events emitted by the last step
  lastOp,        \* the handler step that was taken last
  lastPresence,  \* per socket and note: the users of the last presence-update
                 \* the socket received for the note's room
  editor,        \* per socket: the editor page of its client (NoteEditorPage)
  inbox,         \* per socket: the note-updated events on their way to its client
  localStorage,  \* one browser: the token under localStorage 'token', or NoToken
  socket,        \* one browser: the socket singleton of lib/api.ts, or NoSocket
  app            \* one browser: the React state of the app

\* what the server's handlers read and write
serverVars == <<token, process, conn, socketUser, notes, roomPresence, ioRooms,
                pending, emitted, lastOp>>

\* what the clients hold
browserVars == <<localStorage, socket, app>>

clientVars == <<lastPresence, editor, inbox, browserVars>>

vars == <<serverVars, clientVars>>

\* ------------------------------------------------- JavaScript Map, as used
\* A Map is a sequence of [k, v] entries in insertion order.
MapHas(m, k) == \E i \in DOMAIN m : m[i].k = k

MapIndex(m, k) == CHOOSE i \in DOMAIN m : m[i].k = k

MapGet(m, k) == m[MapIndex(m, k)].v

\* Map.set: replaces the value in place when the key is present, appends
\* otherwise.
MapSet(m, k, v) ==
  IF MapHas(m, k)
    THEN [m EXCEPT ![MapIndex(m, k)] = [k |-> k, v |-> v]]
    ELSE Append(m, [k |-> k, v |-> v])

\* Map.delete
MapDelete(m, k) == SelectSeq(m, LAMBDA e : e.k # k)

\* Array.from(map.values())
MapValues(m) == [i \in DOMAIN m |-> m[i].v]

MapKeys(m) == {m[i].k : i \in DOMAIN m}

\* roomPresence.get(noteId)?.has(socket.id)
InRoom(rp, noteId, sid) == MapHas(rp, noteId) /\ MapHas(MapGet(rp, noteId), sid)

\* ------------------------------------------------------------- the events
Event(ev, sock, room, to, users, content, title, by, msg) ==
  [ev |-> ev, sock |-> sock, room |-> room, to |-> to, users |-> users,
   content |-> content, title |-> title, updatedBy |-> by, message |-> msg]

\* socket.emit('error', {message}): reaches the socket while it is connected
SocketEmitError(s, msg, live) ==
  Event("error", s, "", {s} \cap live, <<>>, "", "", "", msg)

\* io.to(noteId): the connected sockets in the adapter's room
RoomSockets_everyone(io, noteId, live) == live

RoomSockets(io, noteId, live) == io[noteId] \cap live

EmitPresence(io, noteId, users, live) ==
  Event("presence-update", "", noteId, RoomSockets(io, noteId, live), users,
        "", "", "", "")

EmitNoteUpdated_namespace(io, noteId, content, title, by, live) ==
  Event("note-updated", "", noteId, live, <<>>, content, title, by, "")

EmitNoteUpdated(io, noteId, content, title, by, live) ==
  Event("note-updated", "", noteId, RoomSockets(io, noteId, live), <<>>,
        content, title, by, "")

Live(c) == {s \in Sessions : c[s] = "connected"}

\* member: the socket was in the room before the step; ok: the write
\* succeeded; overtaken: see Handler
Op(op, sid, noteId, member, ok) ==
  [op |-> op, sid |-> sid, noteId |-> noteId, member |-> member, ok |-> ok,
   overtaken |-> FALSE]

\* ------------------------------------------------------------------- Init
\* No presence-update has reached any client.
NoUsers == <<"none">>
NothingReceived == [s \in Sessions |-> [n \in NoteIds |-> NoUsers]]

\* No save is scheduled: saveTimer.current holds no running timeout.
NoTimer == "none"

\* The editor page of a note, as loaded: the editor shows the note's content,
\* isLocalChange is false and no timer runs. typed is the content after the
\* user's last change and sent the content of the last note-update emitted.
Page(content) ==
  [content |-> content, isLocalChange |-> FALSE, saveTimer |-> NoTimer,
   resetTimers |-> 0, typed |-> "", sent |-> ""]

\* No editor page is open.
NoPage == Page("")

\* let socket: Socket | null = null
NoSocket == [auth |-> NoToken, session |-> "", buffer |-> <<>>]

\* io(SOCKET_URL, {auth: {token}}): a socket that has yet to connect
NewSocket(tok) == [auth |-> tok, session |-> "", buffer |-> <<>>]

\* The app as it mounts with nothing stored: no user, no call in flight, no
\* editor page; returned is what the last getSocket() returned.
NoApp == [user |-> "", calls |-> {}, page |-> "", step |-> "mount",
          returned |-> NoSocket]

NoBrowser ==
  /\ localStorage = NoToken
  /\ socket = NoSocket
  /\ app = NoApp

Init ==
  /\ token \in [Sessions -> UNION {TokensOf(s) : s \in Sessions}]
  /\ \A s \in Sessions : token[s] \in TokensOf(s)
  /\ process = "running"
  /\ conn = [s \in Sessions |-> "connecting"]
  /\ socketUser = [s \in Sessions |-> NoUser]
  /\ notes = InitialNotes
  /\ roomPresence = <<>>
  /\ ioRooms = [n \in NoteIds |-> {}]
  /\ pending = {}
  /\ emitted = {}
  /\ lastOp = Op("init", "", "", FALSE, FALSE)
  /\ lastPresence = NothingReceived
  /\ editor = [s \in Sessions |-> NoPage]
  /\ inbox = [s \in Sessions |-> <<>>]
  /\ NoBrowser

\* --------------------------------------------------------- authentication
\* verifyToken: the payload, or null when jwt.verify throws
verifyToken(t) ==
  IF t.sig = "signed" THEN [ok |-> TRUE, userId |-> t.userId]
                      ELSE [ok |-> FALSE, userId |-> ""]

AuthMiddleware_acceptAll(t) ==
  [err |-> "",
   user |-> [userId |-> t.userId, name |-> NameOf(t.userId),
             email |-> EmailOf(t.userId)]]

\* io.use middleware: the error it passes to next, or the user it attaches
AuthMiddleware(t) ==
  IF t = NoToken
    THEN [err |-> "Authentication required", user |-> NoUser]
  ELSE IF ~verifyToken(t).ok
    THEN [err |-> "Invalid token", user |-> NoUser]
  ELSE IF verifyToken(t).userId \notin Users
    THEN [err |-> "User not found", user |-> NoUser]
  ELSE [err |-> "",
        user |-> [userId |-> verifyToken(t).userId,
                  name |-> NameOf(verifyToken(t).userId),
                  email |-> EmailOf(verifyToken(t).userId)]]

\* io.use middleware, token verified and user found: socket.user is attached
\* and the connection is accepted.
Connect(s) ==
  /\ process = "running"
  /\ conn[s] = "connecting"
  /\ AuthMiddleware(token[s]).err = ""
  /\ conn' = [conn EXCEPT ![s] = "connected"]
  /\ socketUser' = [socketUser EXCEPT ![s] = AuthMiddleware(token[s]).user]
  /\ emitted' = {}
  /\ lastOp' = Op("connect", s, "", FALSE, FALSE)
  /\ UNCHANGED <<token, process, notes, roomPresence, ioRooms, pending>>

\* io.use middleware, next(err): Socket.IO answers with a connect error and
\* never fires 'connection', so no handler is registered for the socket.
Refuse(s) ==
  /\ process = "running"
  /\ conn[s] = "connecting"
  /\ AuthMiddleware(token[s]).err # ""
  /\ conn' = [conn EXCEPT ![s] = "refused"]
  /\ emitted' = {Event("connect_error", s, "", {s}, <<>>, "", "", "",
                       AuthMiddleware(token[s]).err)}
  /\ lastOp' = Op("refuse", s, "", FALSE, FALSE)
  /\ UNCHANGED <<token, process, socketUser, notes, roomPresence, ioRooms,
                 pending>>

\* The client of a refused connection sends join-note, leave-note or
\* note-update for a note: the socket has no listener for any of them.
RefusedEmit(s, noteId) ==
  /\ process = "running"
  /\ conn[s] = "refused"
  /\ emitted' = {}
  /\ lastOp' = Op("dropped", s, noteId, FALSE, FALSE)
  /\ UNCHANGED <<token, process, conn, socketUser, notes, roomPresence,
                 ioRooms, pending>>

\* ------------------------------------------------------------ the database
\* prisma.note.findUnique({where: {id}}): the row, or null
FindUnique(tbl, noteId) ==
  IF noteId \in DOMAIN tbl
    THEN [found |-> TRUE, ownerId |-> tbl[noteId].ownerId]
    ELSE [found |-> FALSE, ownerId |-> ""]

\* updateData: content always, title only when the payload has one
UpdateData(row, content, title) ==
  [row EXCEPT !.content = content,
              !.title = IF title # Undefined THEN title ELSE @]

\* prisma.note.update({where: {id}, data}): throws when the row is gone
PrismaUpdate(tbl, noteId, content, title) ==
  IF noteId \in DOMAIN tbl
    THEN [ok |-> TRUE,
          tbl |-> [tbl EXCEPT ![noteId] = UpdateData(tbl[noteId], content, title)]]
    ELSE [ok |-> FALSE, tbl |-> tbl]

\* prisma.note.delete({where: {id}})
PrismaDelete(tbl, noteId) == [n \in DOMAIN tbl \ {noteId} |-> tbl[n]]

\* A handler suspended at an await.  at = "findUnique": the lookup has been
\* issued and its result is (found, ownerId); at = "update": the write has
\* been issued and its result is ok.  overtaken is history: the socket's
\* latest event for the note, handled while this join-note was suspended, is
\* a leave-note.
Handler(h, sid, noteId, at, found, ownerId, content, title, ok) ==
  [h |-> h, sid |-> sid, noteId |-> noteId, at |-> at, found |-> found,
   ownerId |-> ownerId, content |-> content, title |-> title, ok |-> ok,
   overtaken |-> FALSE]

Overtake(hs, sid, noteId, by) ==
  {IF h.h = "join" /\ h.sid = sid /\ h.noteId = noteId
     THEN [h EXCEPT !.overtaken = by] ELSE h : h \in hs}

\* ------------------------------------------------------------- join-note
PresenceUserOf(user) ==
  [odId |-> user.userId, name |-> user.name, email |-> user.email]

\* if (!note) ... with the check dropped
JoinNoteMissing_never(h) == FALSE

\* if (!note)
JoinNoteMissing(h) == ~h.found

\* lines 97-106 with room.set adding a second entry for a socket already present
AddPresence_dup(rp, noteId, sid, user) ==
  LET rp1  == IF MapHas(rp, noteId) THEN rp ELSE MapSet(rp, noteId, <<>>)
      room == Append(MapGet(rp1, noteId), [k |-> sid, v |-> PresenceUserOf(user)])
  IN MapSet(rp1, noteId, room)

\* roomPresence after lines 97-106: the room is created when absent, and the
\* socket's entry is set in it
AddPresence(rp, noteId, sid, user) ==
  LET rp1  == IF MapHas(rp, noteId) THEN rp ELSE MapSet(rp, noteId, <<>>)
      room == MapSet(MapGet(rp1, noteId), sid, PresenceUserOf(user))
  IN MapSet(rp1, noteId, room)

\* socket.on('join-note'), up to the await of the lookup
JoinNoteStart(s, noteId) ==
  /\ process = "running"
  /\ conn[s] = "connected"
  /\ socketUser[s] # NoUser
  /\ Cardinality(pending) < MaxPending
  /\ LET r == FindUnique(notes, noteId)
         h == Handler("join", s, noteId, "findUnique", r.found, r.ownerId,
                      "", "", FALSE)
     IN /\ h \notin pending
        /\ pending' = Overtake(pending, s, noteId, FALSE) \cup {h}
  /\ emitted' = {}
  /\ lastOp' = Op("join:start", s, noteId, FALSE, FALSE)
  /\ UNCHANGED <<token, process, conn, socketUser, notes, roomPresence,
                 ioRooms>>

\* socket.on('join-note'), from the result of the lookup to the end
JoinNoteResume(h) ==
  /\ process = "running"
  /\ h \in pending
  /\ h.h = "join"
  /\ pending' = pending \ {h}
  /\ IF JoinNoteMissing(h)
       THEN /\ emitted' = {SocketEmitError(h.sid, "Note not found", Live(conn))}
            /\ lastOp' = Op("join:notfound", h.sid, h.noteId, FALSE, FALSE)
            /\ UNCHANGED <<roomPresence, ioRooms>>
       ELSE /\ ioRooms' = [ioRooms EXCEPT ![h.noteId] = @ \cup {h.sid}]
            /\ roomPresence' =
                 AddPresence(roomPresence, h.noteId, h.sid, socketUser[h.sid])
            /\ emitted' =
                 {EmitPresence(ioRooms', h.noteId,
                               MapValues(MapGet(roomPresence', h.noteId)),
                               Live(conn))}
            /\ lastOp' = [Op("join:joined", h.sid, h.noteId,
                               InRoom(roomPresence, h.noteId, h.sid), FALSE)
                            EXCEPT !.overtaken = h.overtaken]
  /\ UNCHANGED <<token, process, conn, socketUser, notes>>

\* ------------------------------------------------------------ leave-note
\* handleLeaveNote without the clean-up of empty rooms
handleLeaveNote_noCleanup(st, sid, noteId, live) ==
  LET io1 == [st.io EXCEPT ![noteId] = @ \ {sid}]
  IN IF MapHas(st.rp, noteId)
       THEN LET room == MapDelete(MapGet(st.rp, noteId), sid)
            IN [rp  |-> MapSet(st.rp, noteId, room),
                io  |-> io1,
                out |-> st.out \cup
                          {EmitPresence(io1, noteId, MapValues(room), live)}]
       ELSE [rp |-> st.rp, io |-> io1, out |-> st.out]

\* handleLeaveNote(socket, noteId, io), on the state st = [rp, io, out]:
\* the registry, the Socket.IO rooms and the events emitted so far
handleLeaveNote(st, sid, noteId, live) ==
  LET io1 == [st.io EXCEPT ![noteId] = @ \ {sid}]
  IN IF MapHas(st.rp, noteId)
       THEN LET room == MapDelete(MapGet(st.rp, noteId), sid)
            IN IF Len(room) = 0
                 THEN [rp  |-> MapDelete(st.rp, noteId),
                       io  |-> io1,
                       out |-> st.out]
                 ELSE [rp  |-> MapSet(st.rp, noteId, room),
                       io  |-> io1,
                       out |-> st.out \cup
                                 {EmitPresence(io1, noteId, MapValues(room), live)}]
       ELSE [rp |-> st.rp, io |-> io1, out |-> st.out]

\* socket.on('leave-note')
LeaveNote(s, noteId) ==
  /\ process = "running"
  /\ conn[s] = "connected"
  /\ LET st == handleLeaveNote([rp |-> roomPresence, io |-> ioRooms, out |-> {}],
                               s, noteId, Live(conn))
     IN /\ roomPresence' = st.rp
        /\ ioRooms' = st.io
        /\ emitted' = st.out
  /\ pending' = Overtake(pending, s, noteId, TRUE)
  /\ lastOp' = Op("leave", s, noteId, InRoom(roomPresence, noteId, s), FALSE)
  /\ UNCHANGED <<token, process, conn, socketUser, notes>>

\* ------------------------------------------------------------ disconnect
\* roomPresence.forEach((room, noteId) => ...): the entries are visited in
\* insertion order on the live Map; when the entry at position i is deleted
\* the next entry moves to position i.
RECURSIVE ForEachRoom(_, _, _, _)
ForEachRoom(st, i, sid, live) ==
  IF i > Len(st.rp)
    THEN st
    ELSE LET noteId == st.rp[i].k
             room   == st.rp[i].v
         IN IF MapHas(room, sid)
              THEN LET st1 == handleLeaveNote(st, sid, noteId, live)
                   IN ForEachRoom(st1,
                                  IF Len(st1.rp) < Len(st.rp) THEN i ELSE i + 1,
                                  sid, live)
              ELSE ForEachRoom(st, i + 1, sid, live)

\* socket.on('disconnect'): Socket.IO has already removed the socket from the
\* namespace and from all its rooms when the handler runs
Disconnect(s) ==
  /\ process = "running"
  /\ conn[s] = "connected"
  /\ conn' = [conn EXCEPT ![s] = "closed"]
  /\ LET io0 == [n \in NoteIds |-> ioRooms[n] \ {s}]
         st  == ForEachRoom([rp |-> roomPresence, io |-> io0, out |-> {}],
                            1, s, Live(conn'))
     IN /\ roomPresence' = st.rp
        /\ ioRooms' = st.io
        /\ emitted' = st.out
  /\ lastOp' = Op("disconnect", s, "", FALSE, FALSE)
  /\ UNCHANGED <<token, process, socketUser, notes, pending>>

\* ----------------------------------------------------------- note-update
\* if (!note) ... with the check dropped
UpdateNoteMissing_never(h) == FALSE

\* if (!note)
UpdateNoteMissing(h) == ~h.found

\* the ownership check skipped
NotOwner_never(h, user) == FALSE

\* if (note.ownerId !== socket.user.userId)
NotOwner(h, user) == h.ownerId # user.userId

\* the awaited write's rejection swallowed: the handler goes on to broadcast
WriteRejected_swallowed(h) == FALSE

\* await prisma.note.update(...) throws: the rest of the handler is skipped
WriteRejected(h) == ~h.ok

\* socket.on('note-update'), up to the await of the lookup
NoteUpdateStart(s, noteId, content, title) ==
  /\ process = "running"
  /\ conn[s] = "connected"
  /\ socketUser[s] # NoUser
  /\ Cardinality(pending) < MaxPending
  /\ LET r == FindUnique(notes, noteId)
         h == Handler("update", s, noteId, "findUnique", r.found, r.ownerId,
                      content, title, FALSE)
     IN /\ h \notin pending
        /\ pending' = pending \cup {h}
  /\ emitted' = {}
  /\ lastOp' = Op("update:start", s, noteId, FALSE, FALSE)
  /\ UNCHANGED <<token, process, conn, socketUser, notes, roomPresence,
                 ioRooms>>

\* socket.on('note-update'), from the result of the lookup to the await of
\* the write; the write is applied to the table, or fails, as it is issued
NoteUpdateAuthorize(h) ==
  /\ process = "running"
  /\ h \in pending
  /\ h.h = "update"
  /\ h.at = "findUnique"
  /\ IF UpdateNoteMissing(h)
       THEN /\ emitted' = {SocketEmitError(h.sid, "Note not found", Live(conn))}
            /\ lastOp' = Op("update:notfound", h.sid, h.noteId, FALSE, FALSE)
            /\ pending' = pending \ {h}
            /\ UNCHANGED notes
       ELSE IF NotOwner(h, socketUser[h.sid])
         THEN /\ emitted' = {SocketEmitError(h.sid,
                               "Only the owner can edit this note", Live(conn))}
              /\ lastOp' = Op("update:forbidden", h.sid, h.noteId, FALSE, FALSE)
              /\ pending' = pending \ {h}
              /\ UNCHANGED notes
         ELSE LET w == PrismaUpdate(notes, h.noteId, h.content, h.title)
              IN /\ notes' = w.tbl
                 /\ pending' = (pending \ {h}) \cup
                                 {[h EXCEPT !.at = "update", !.ok = w.ok]}
                 /\ emitted' = {}
                 /\ lastOp' = Op("update:write", h.sid, h.noteId, FALSE, w.ok)
  /\ UNCHANGED <<token, process, conn, socketUser, roomPresence, ioRooms>>

\* The rejection of prisma.note.update leaves the async listener with nothing
\* to catch it and the process has no 'unhandledRejection' listener: Node
\* ends the process, unless it was started in a mode that only warns.
UnhandledRejection == {"crashed", "running"}

\* socket.on('note-update'), from the result of the write to the end
NoteUpdateBroadcast(h) ==
  /\ process = "running"
  /\ h \in pending
  /\ h.h = "update"
  /\ h.at = "update"
  /\ pending' = pending \ {h}
  /\ IF WriteRejected(h)
       THEN /\ emitted' = {}
            /\ lastOp' = Op("update:throw", h.sid, h.noteId,
                            h.sid \in ioRooms[h.noteId], h.ok)
            /\ process' \in UnhandledRejection
       ELSE /\ emitted' = {EmitNoteUpdated(ioRooms, h.noteId, h.content, h.title,
                                           socketUser[h.sid].name, Live(conn))}
            /\ lastOp' = Op("update:broadcast", h.sid, h.noteId,
                            h.sid \in ioRooms[h.noteId], h.ok)
            /\ UNCHANGED process
  /\ UNCHANGED <<token, conn, socketUser, notes, roomPresence, ioRooms>>

\* ------------------------------------------------------------- REST delete
\* router.delete('/:id') by the note's owner: the row is removed
DeleteNote(u, noteId) ==
  /\ process = "running"
  /\ noteId \in DOMAIN notes
  /\ notes[noteId].ownerId = u
  /\ notes' = PrismaDelete(notes, noteId)
  /\ emitted' = {}
  /\ lastOp' = Op("rest:delete", "", noteId, FALSE, FALSE)
  /\ UNCHANGED <<token, process, conn, socketUser, roomPresence, ioRooms,
                 pending>>

\* ------------------------------------------------------------------- Next
Next ==
  \/ \E s \in Sessions : Connect(s) /\ UNCHANGED clientVars
  \/ \E s \in Sessions : Refuse(s) /\ UNCHANGED clientVars
  \/ \E s \in Sessions, n \in NoteIds :
       RefusedEmit(s, n) /\ UNCHANGED clientVars
  \/ \E s \in Sessions, n \in NoteIds :
       JoinNoteStart(s, n) /\ UNCHANGED clientVars
  \/ \E h \in pending : JoinNoteResume(h) /\ UNCHANGED clientVars
  \/ \E s \in Sessions, n \in NoteIds :
       LeaveNote(s, n) /\ UNCHANGED clientVars
  \/ \E s \in Sessions, n \in EditedNotes, p \in Payloads :
       NoteUpdateStart(s, n, p.content, p.title) /\ UNCHANGED clientVars
  \/ \E h \in pending : NoteUpdateAuthorize(h) /\ UNCHANGED clientVars
  \/ \E h \in pending : NoteUpdateBroadcast(h) /\ UNCHANGED clientVars
  \/ \E s \in Sessions : Disconnect(s) /\ UNCHANGED clientVars
  \/ \E u \in Users, n \in EditedNotes :
       DeleteNote(u, n) /\ UNCHANGED clientVars

Spec == Init /\ [][Next]_vars

\* ------------------------------------------------- presence, as received
\* The client's socket.on('presence-update') keeps the users of the event:
\* what each socket holds for each room after the events of a step.
ReceivePresence(lp, out) ==
  [s \in Sessions |->
     [n \in NoteIds |->
        IF \E e \in out : e.ev = "presence-update" /\ e.room = n /\ s \in e.to
          THEN (CHOOSE e \in out :
                  e.ev = "presence-update" /\ e.room = n /\ s \in e.to).users
          ELSE lp[s][n]]]

Received ==
  /\ lastPresence' = ReceivePresence(lastPresence, emitted')
  /\ UNCHANGED <<editor, inbox, browserVars>>

\* The handlers that touch presence, with the clients receiving what they emit.
PresenceNext ==
  \/ \E s \in Sessions : Connect(s) /\ Received
  \/ \E s \in Sessions : Refuse(s) /\ Received
  \/ \E s \in Sessions, n \in NoteIds : JoinNoteStart(s, n) /\ Received
  \/ \E h \in pending : JoinNoteResume(h) /\ Received
  \/ \E s \in Sessions, n \in NoteIds : LeaveNote(s, n) /\ Received
  \/ \E s \in Sessions : Disconnect(s) /\ Received

PresenceSpec == Init /\ [][PresenceNext]_vars

\* ------------------------------------------------------ the editor page
\* The note the pages are open on, and the documents a user types.
EditorNote == "n1"
EditorContents == {"X", "Y"}

\* note.isOwner, as GET /api/notes/:id answered it
IsOwner(s) == socketUser[s].userId = InitialNotes[EditorNote].ownerId

\* useEditor onUpdate after a change that leaves the document c: nothing
\* while isLocalChange is set; else set it and debouncedSave(editor.getJSON()),
\* which clears the running timeout and starts one holding c
onUpdate(pg, c) ==
  IF pg.isLocalChange
    THEN [pg EXCEPT !.content = c, !.typed = c]
    ELSE [pg EXCEPT !.content = c, !.typed = c, !.isLocalChange = TRUE,
                    !.saveTimer = c]

\* The user changes the document; the editor is editable for the owner only.
EditorChange(s, c) ==
  /\ conn[s] = "connected"
  /\ IsOwner(s)
  /\ c # editor[s].content
  /\ editor' = [editor EXCEPT ![s] = onUpdate(editor[s], c)]
  /\ UNCHANGED <<serverVars, lastPresence, inbox, browserVars>>

\* The 300 ms timeout of debouncedSave runs: the page emits note-update with
\* the content the timeout holds and the title, and starts the 500 ms
\* timeout. The server's handler starts on the event.
SaveTimerFires(s) ==
  /\ editor[s].saveTimer # NoTimer
  /\ editor[s].resetTimers < MaxResetTimers
  /\ NoteUpdateStart(s, EditorNote, editor[s].saveTimer,
                     InitialNotes[EditorNote].title)
  /\ editor' = [editor EXCEPT ![s] =
                  [editor[s] EXCEPT !.saveTimer = NoTimer,
                                    !.sent = editor[s].saveTimer,
                                    !.resetTimers = @ + 1]]
  /\ UNCHANGED <<lastPresence, inbox, browserVars>>

\* The 500 ms timeout runs: setSaving(false); isLocalChange.current = false
ResetTimerFires(s) ==
  /\ editor[s].resetTimers > 0
  /\ editor' = [editor EXCEPT ![s] =
                  [editor[s] EXCEPT !.resetTimers = @ - 1,
                                    !.isLocalChange = FALSE]]
  /\ UNCHANGED <<serverVars, lastPresence, inbox, browserVars>>

\* The note-updated events of a step travel to the clients they went to.
Deliver ==
  /\ \A s \in Sessions : Len(inbox[s]) < MaxInbox
  /\ inbox' =
       [s \in Sessions |->
          IF \E e \in emitted' : e.ev = "note-updated" /\ s \in e.to
            THEN LET e == CHOOSE e \in emitted' :
                            e.ev = "note-updated" /\ s \in e.to
                 IN Append(inbox[s], [content |-> e.content, title |-> e.title,
                                      updatedBy |-> e.updatedBy])
            ELSE inbox[s]]
  /\ UNCHANGED <<lastPresence, editor, browserVars>>

\* socket.on('note-updated'): unless isLocalChange is set, the editor takes
\* the content of the event when it has one; isLocalChange is cleared
onNoteUpdated(pg, data) ==
  [pg EXCEPT !.content = IF ~pg.isLocalChange /\ data.content # ""
                           THEN data.content ELSE @,
             !.isLocalChange = FALSE]

\* A note-updated reaches the client of s.
ReceiveNoteUpdated(s) ==
  /\ inbox[s] # <<>>
  /\ editor' = [editor EXCEPT ![s] = onNoteUpdated(editor[s], Head(inbox[s]))]
  /\ inbox' = [inbox EXCEPT ![s] = Tail(inbox[s])]
  /\ UNCHANGED <<serverVars, lastPresence, browserVars>>

\* Two pages are open on the note and have joined its room: the owner's, and
\* a second tab of the owner or the page of a viewer.
EditorInit ==
  /\ token \in [Sessions -> [sig : {"signed"}, userId : Users]]
  /\ token["s1"].userId = InitialNotes[EditorNote].ownerId
  /\ process = "running"
  /\ conn = [s \in Sessions |-> "connected"]
  /\ socketUser = [s \in Sessions |-> AuthMiddleware(token[s]).user]
  /\ notes = InitialNotes
  /\ roomPresence =
       <<[k |-> EditorNote,
          v |-> <<[k |-> "s1", v |-> PresenceUserOf(socketUser["s1"])],
                  [k |-> "s2", v |-> PresenceUserOf(socketUser["s2"])]>>]>>
  /\ ioRooms = [n \in NoteIds |-> IF n = EditorNote THEN Sessions ELSE {}]
  /\ pending = {}
  /\ emitted = {}
  /\ lastOp = Op("init", "", "", FALSE, FALSE)
  /\ lastPresence = NothingReceived
  /\ editor = [s \in Sessions |-> Page(InitialNotes[EditorNote].content)]
  /\ inbox = [s \in Sessions |-> <<>>]
  /\ NoBrowser

EditorNext ==
  \/ \E s \in Sessions, c \in EditorContents : EditorChange(s, c)
  \/ \E s \in Sessions : SaveTimerFires(s)
  \/ \E s \in Sessions : ResetTimerFires(s)
  \/ \E h \in pending : NoteUpdateAuthorize(h) /\ UNCHANGED clientVars
  \/ \E h \in pending : NoteUpdateBroadcast(h) /\ Deliver
  \/ \E s \in Sessions : ReceiveNoteUpdated(s)

EditorSpec == EditorInit /\ [][EditorNext]_vars

\* ------------------------------------------- the handshake, step by step
\* what await prisma.user.findUnique can do: resolve (to the row or to null)
\* or reject (the database cannot be reached)
LookupOutcomes == {"resolves", "rejects"}

\* the variables the middleware does not touch
authFrame == <<token, notes, roomPresence, ioRooms, pending, clientVars>>

\* io.use middleware up to await prisma.user.findUnique: the checks of the
\* token, which end the handshake with next(err) or go on to the lookup
AuthVerify(s) ==
  /\ process = "running"
  /\ conn[s] = "connecting"
  /\ IF token[s] = NoToken \/ ~verifyToken(token[s]).ok
       THEN /\ conn' = [conn EXCEPT ![s] = "refused"]
            /\ emitted' = {Event("connect_error", s, "", {s}, <<>>, "", "", "",
                                 AuthMiddleware(token[s]).err)}
            /\ lastOp' = Op("refuse", s, "", FALSE, FALSE)
       ELSE /\ conn' = [conn EXCEPT ![s] = "authenticating"]
            /\ emitted' = {}
            /\ lastOp' = Op("auth:lookup", s, "", FALSE, FALSE)
  /\ UNCHANGED <<process, socketUser, authFrame>>

\* io.use middleware after the await. A rejected lookup rejects the async
\* middleware itself: Socket.IO ignores the promise, next is never called and
\* the handshake stays where it is.
AuthResume(s, outcome) ==
  /\ process = "running"
  /\ conn[s] = "authenticating"
  /\ IF outcome = "rejects"
       THEN /\ conn' = [conn EXCEPT ![s] = "stalled"]
            /\ emitted' = {}
            /\ lastOp' = Op("auth:throw", s, "", FALSE, FALSE)
            /\ process' \in UnhandledRejection
            /\ UNCHANGED socketUser
       ELSE /\ IF AuthMiddleware(token[s]).err # ""
                 THEN /\ conn' = [conn EXCEPT ![s] = "refused"]
                      /\ emitted' = {Event("connect_error", s, "", {s}, <<>>, "",
                                           "", "", AuthMiddleware(token[s]).err)}
                      /\ lastOp' = Op("refuse", s, "", FALSE, FALSE)
                      /\ UNCHANGED socketUser
                 ELSE /\ conn' = [conn EXCEPT ![s] = "connected"]
                      /\ socketUser' = [socketUser EXCEPT ![s] =
                                          AuthMiddleware(token[s]).user]
                      /\ emitted' = {}
                      /\ lastOp' = Op("connect", s, "", FALSE, FALSE)
            /\ UNCHANGED process
  /\ UNCHANGED authFrame

AuthNext ==
  \/ \E s \in Sessions : AuthVerify(s)
  \/ \E s \in Sessions, o \in LookupOutcomes : AuthResume(s, o)
  \/ \E s \in Sessions, n \in NoteIds :
       RefusedEmit(s, n) /\ UNCHANGED clientVars
  \/ \E s \in Sessions : Disconnect(s) /\ UNCHANGED clientVars

AuthSpec == Init /\ [][AuthNext]_vars

\* -------------------------------------------------------------- REST API
\* What a notes route answers: res.json, or the error it hands to next and
\* the error handler turns into the response.
Response(kind, user, noteId, message) ==
  Event(kind, "", noteId, {}, <<>>, "", "", user, message)

\* the variables no REST route touches
restFrame == <<token, process, conn, socketUser, roomPresence, ioRooms,
               clientVars>>

RestNotOwner_never(h) == FALSE

\* existing.ownerId !== req.user!.userId
RestNotOwner(h) == h.ownerId # h.sid

\* router.put('/:id') and router.delete('/:id'), up to await findUnique;
\* requireAuth has put the token's payload in req.user
RestStart(method, u, noteId, content, title) ==
  /\ Cardinality(pending) < MaxPending
  /\ LET f == FindUnique(notes, noteId)
         h == Handler(method, u, noteId, "findUnique", f.found, f.ownerId,
                      content, title, TRUE)
     IN /\ h \notin pending
        /\ pending' = pending \cup {h}
  /\ emitted' = {}
  /\ lastOp' = Op(method \o ":start", u, noteId, FALSE, FALSE)
  /\ UNCHANGED <<notes, restFrame>>

\* the checks after the lookup, and the write they let through
RestAuthorize(h) ==
  /\ h \in pending
  /\ h.h \in {"put", "delete"}
  /\ h.at = "findUnique"
  /\ IF ~h.found
       THEN /\ emitted' = {Response("NotFoundError", h.sid, h.noteId,
                                    "Note not found")}
            /\ pending' = pending \ {h}
            /\ lastOp' = Op(h.h \o ":notfound", h.sid, h.noteId, FALSE, FALSE)
            /\ UNCHANGED notes
       ELSE IF RestNotOwner(h)
         THEN /\ emitted' =
                   {Response("ForbiddenError", h.sid, h.noteId,
                             IF h.h = "put" THEN "Only the note owner can edit"
                                            ELSE "Only the note owner can delete")}
              /\ pending' = pending \ {h}
              /\ lastOp' = Op(h.h \o ":forbidden", h.sid, h.noteId, FALSE, FALSE)
              /\ UNCHANGED notes
         ELSE LET ok == h.noteId \in DOMAIN notes
                  tbl == IF ~ok THEN notes
                         ELSE IF h.h = "put"
                           THEN PrismaUpdate(notes, h.noteId, h.content, h.title).tbl
                           ELSE PrismaDelete(notes, h.noteId)
              IN /\ notes' = tbl
                 /\ pending' = (pending \ {h}) \cup
                                {[h EXCEPT !.at = "write", !.ok = ok]}
                 /\ emitted' = {}
                 /\ lastOp' = Op(h.h \o ":write", h.sid, h.noteId, FALSE, ok)
  /\ UNCHANGED restFrame

\* after the write: res.json, or catch (error) next(error) and the error
\* handler's answer for an error that is not an AppError
RestRespond(h) ==
  /\ h \in pending
  /\ h.h \in {"put", "delete"}
  /\ h.at = "write"
  /\ pending' = pending \ {h}
  /\ emitted' = IF h.ok
                  THEN {Response("ok", h.sid, h.noteId, "")}
                  ELSE {Response("error", h.sid, h.noteId,
                                 "Internal server error")}
  /\ lastOp' = Op(h.h \o ":respond", h.sid, h.noteId, FALSE, h.ok)
  /\ UNCHANGED <<notes, restFrame>>

RestInit ==
  /\ Init
  /\ \A s \in Sessions : token[s] = [sig |-> "signed", userId |-> TokenUser(s)]

RestNext ==
  \/ \E u \in Users, n \in NoteIds, p \in Payloads :
       RestStart("put", u, n, p.content, p.title)
  \/ \E u \in Users, n \in NoteIds :
       RestStart("delete", u, n, "", Undefined)
  \/ \E h \in pending : RestAuthorize(h)
  \/ \E h \in pending : RestRespond(h)

RestSpec == RestInit /\ [][RestNext]_vars

\* ------------------------------------------- the browser: auth and socket
\* One browser runs the app. Its tabs' calls of the auth API are in flight
\* in app.calls; app.step names the operation that ran last and app.returned
\* is what the last getSocket() returned.
ApiOutcomes == {"resolves", "rejects"}

\* data.token of a successful login or register of user u
TokenFor(u) == [sig |-> "signed", userId |-> u]

\* The tokens a /auth/callback?token= URL may carry.
CallbackTokens == {TokenFor(u) : u \in Users} \cup {TokenFor(DeletedUser)}

browserFrame == <<serverVars, lastPresence, editor, inbox>>

\* getSocket(): the singleton afterwards; the same value is what it returns
GetSocketResult(stored, sock) ==
  IF stored = NoToken THEN NoSocket
  ELSE IF sock = NoSocket THEN NewSocket(stored)
  ELSE sock

\* login(email, password) and register(email, password, name), up to the
\* await of the API call
LoginStart(api, u) ==
  /\ Cardinality(app.calls) < MaxCalls
  /\ app' = [app EXCEPT !.calls = @ \cup {[api |-> api, user |-> u,
                                            bearer |-> localStorage]},
                        !.step = api]
  /\ UNCHANGED <<localStorage, socket, browserFrame>>

\* login and register after the await: the token is stored and the user set;
\* a rejected call throws into the page's form and stores nothing.
LoginResume(c, outcome) ==
  /\ c \in app.calls
  /\ c.api \in {"login", "register"}
  /\ IF outcome = "resolves"
       THEN /\ localStorage' = TokenFor(c.user)
            /\ app' = [app EXCEPT !.calls = @ \ {c}, !.user = c.user,
                                  !.step = "loggedIn"]
       ELSE /\ localStorage' = localStorage
            /\ app' = [app EXCEPT !.calls = @ \ {c}, !.step = "loginFailed"]
  /\ UNCHANGED <<socket, browserFrame>>

\* loginWithToken(token): the token is stored and fetchUser() is started;
\* fetchApi reads the stored token before its await.
LoginWithToken(t) ==
  /\ Cardinality(app.calls) < MaxCalls
  /\ localStorage' = t
  /\ app' = [app EXCEPT !.calls = @ \cup {[api |-> "getMe", user |-> t.userId,
                                            bearer |-> t]},
                        !.step = "loginWithToken"]
  /\ UNCHANGED <<socket, browserFrame>>

\* fetchUser after the await: the user is set, or the token is removed
FetchUserResume(c, outcome) ==
  /\ c \in app.calls
  /\ c.api = "getMe"
  /\ outcome = "resolves" => verifyToken(c.bearer).ok /\ c.user \in Users
  /\ IF outcome = "resolves"
       THEN /\ localStorage' = localStorage
            /\ app' = [app EXCEPT !.calls = @ \ {c}, !.user = c.user,
                                  !.step = "fetchedUser"]
       ELSE /\ localStorage' = NoToken
            /\ app' = [app EXCEPT !.calls = @ \ {c}, !.user = "",
                                  !.step = "fetchUserFailed"]
  /\ UNCHANGED <<socket, browserFrame>>

\* logout(): removeItem, disconnectSocket(), setUser(null)
Logout ==
  /\ localStorage' = NoToken
  /\ socket' = NoSocket
  /\ app' = [app EXCEPT !.user = "", !.step = "logout"]
  /\ UNCHANGED browserFrame

\* getSocket(), as called by the editor page
GetSocket ==
  /\ socket' = GetSocketResult(localStorage, socket)
  /\ app' = [app EXCEPT !.step = "getSocket",
                        !.returned = GetSocketResult(localStorage, socket)]
  /\ UNCHANGED <<localStorage, browserFrame>>

BrowserNext ==
  \/ \E api \in {"login", "register"}, u \in Users : LoginStart(api, u)
  \/ \E c \in app.calls, o \in ApiOutcomes : LoginResume(c, o)
  \/ \E t \in CallbackTokens : LoginWithToken(t)
  \/ \E c \in app.calls, o \in ApiOutcomes : FetchUserResume(c, o)
  \/ Logout
  \/ GetSocket

BrowserSpec == Init /\ [][BrowserNext]_vars

\* ------------------------------------------ the browser: drop and reconnect
\* The sessions are the successive connections of the one browser's socket:
\* socket.io-client reconnects by itself after the transport drops, and the
\* server sees a new socket with a new id that is in no room.
reconnectFrame == <<lastPresence, editor, inbox, localStorage>>

\* The next connection of the browser's socket: the first unused session.
FreshSession(s) ==
  /\ conn[s] = "connecting"
  /\ \A t \in Sessions : conn[t] = "connecting" => (s = "s1" \/ t # "s1")

\* socket.emit(ev, id) of the page's socket: sent when the socket is
\* connected, kept in the send buffer when it is not. The server receives
\* the events in the order of their emits, so an emit queues behind what the
\* buffer still holds.
Emit(sock, ev, noteId) ==
  IF sock.session # "" /\ sock.buffer = <<>>
    THEN /\ IF ev = "join-note" THEN JoinNoteStart(sock.session, noteId)
                                ELSE LeaveNote(sock.session, noteId)
         /\ socket' = sock
    ELSE /\ Len(sock.buffer) < MaxBuffer
         /\ socket' = [sock EXCEPT !.buffer = Append(@, [ev |-> ev, noteId |-> noteId])]
         /\ UNCHANGED serverVars

\* NoteEditorPage's socket effect, run once the note has loaded and the
\* editor exists: getSocket() and socket.emit('join-note', id).
OpenPage(noteId) ==
  /\ app.page = ""
  /\ GetSocketResult(localStorage, socket) # NoSocket
  /\ app' = [app EXCEPT !.page = noteId, !.step = "openPage",
                        !.returned = GetSocketResult(localStorage, socket)]
  /\ Emit(GetSocketResult(localStorage, socket), "join-note", noteId)
  /\ UNCHANGED reconnectFrame

\* The effect's cleanup when the page unmounts: socket.emit('leave-note', id)
ClosePage ==
  /\ app.page # ""
  /\ socket # NoSocket
  /\ app' = [app EXCEPT !.page = "", !.step = "closePage"]
  /\ Emit(socket, "leave-note", app.page)
  /\ UNCHANGED reconnectFrame

\* The socket connects, for the first time or again: the handshake carries
\* the token the socket was created with.
SocketConnect(s) ==
  /\ socket # NoSocket
  /\ socket.session = ""
  /\ FreshSession(s)
  /\ token[s] = socket.auth
  /\ Connect(s)
  /\ socket' = [socket EXCEPT !.session = s]
  /\ UNCHANGED <<app, reconnectFrame>>

\* On connect the client sends what its buffer holds, in order.
FlushBuffer ==
  /\ socket.session # ""
  /\ socket.buffer # <<>>
  /\ IF Head(socket.buffer).ev = "join-note"
       THEN JoinNoteStart(socket.session, Head(socket.buffer).noteId)
       ELSE LeaveNote(socket.session, Head(socket.buffer).noteId)
  /\ socket' = [socket EXCEPT !.buffer = Tail(@)]
  /\ UNCHANGED <<app, reconnectFrame>>

\* The transport drops: the server runs the socket's disconnect handler, the
\* client keeps its Socket object and will connect again.
TransportDrop ==
  /\ socket.session # ""
  /\ Disconnect(socket.session)
  /\ socket' = [socket EXCEPT !.session = ""]
  /\ UNCHANGED <<app, reconnectFrame>>

ReconnectInit ==
  /\ \E u \in Users : token = [s \in Sessions |-> TokenFor(u)]
  /\ process = "running"
  /\ conn = [s \in Sessions |-> "connecting"]
  /\ socketUser = [s \in Sessions |-> NoUser]
  /\ notes = InitialNotes
  /\ roomPresence = <<>>
  /\ ioRooms = [n \in NoteIds |-> {}]
  /\ pending = {}
  /\ emitted = {}
  /\ lastOp = Op("init", "", "", FALSE, FALSE)
  /\ lastPresence = NothingReceived
  /\ editor = [s \in Sessions |-> NoPage]
  /\ inbox = [s \in Sessions |-> <<>>]
  /\ localStorage = token["s1"]
  /\ socket = NoSocket
  /\ app = [NoApp EXCEPT !.user = token["s1"].userId]

ReconnectNext ==
  \/ \E n \in NoteIds : OpenPage(n)
  \/ \E s \in Sessions : SocketConnect(s)
  \/ ClosePage
  \/ FlushBuffer
  \/ TransportDrop
  \/ \E h \in pending : JoinNoteResume(h) /\ UNCHANGED clientVars

ReconnectSpec == ReconnectInit /\ [][ReconnectNext]_vars

\* ------------------------------------------------------------ type check
TypeOK ==
  /\ \A s \in Sessions : token[s].sig \in {"none", "forged", "signed"}
  /\ process \in {"running", "crashed"}
  /\ conn \in [Sessions -> {"connecting", "authenticating", "stalled",
                            "connected", "refused", "closed"}]
  /\ DOMAIN notes \subseteq NoteIds
  /\ \A n \in NoteIds : ioRooms[n] \subseteq Sessions
  /\ Cardinality(pending) <= MaxPending
  /\ Cardinality(app.calls) <= MaxCalls
  /\ Len(socket.buffer) <= MaxBuffer
  /\ localStorage.sig \in {"none", "signed"}
  /\ socket.auth.sig \in {"none", "signed"}
  /\ \A s \in Sessions :
       /\ editor[s].resetTimers \in 0..MaxResetTimers
       /\ Len(inbox[s]) <= MaxInbox

\* =================================================================== claims
\* The owner of a note never changes: no handler and no route writes ownerId.
OwnerOf(noteId) == InitialNotes[noteId].ownerId

\* The handler h ends or moves on in this step (the history field apart).
Resumes(h) ==
  /\ h \in pending
  /\ [h EXCEPT !.overtaken = FALSE]
        \notin {[g EXCEPT !.overtaken = FALSE] : g \in pending'}

RoomMembers(noteId) ==
  IF MapHas(roomPresence, noteId) THEN MapKeys(MapGet(roomPresence, noteId)) ELSE {}

\* C1: a note-update from a socket whose user is not the note's owner never
\* changes the note table, never gets to the write or to the note-updated
\* broadcast, and every event its handler emits is an error addressed to that
\* socket alone.
C1_NonOwnerUpdateRejected ==
  [][\A h \in pending :
       (/\ h.h = "update"
        /\ socketUser[h.sid].userId # OwnerOf(h.noteId)
        /\ Resumes(h))
       => /\ notes' = notes
          /\ pending' = pending \ {h}
          /\ \A e \in emitted' :
               e.ev = "error" /\ e.sock = h.sid /\ e.to \subseteq {h.sid}]_vars

\* C1 witness: s2 (user uB) was refused an update of uA's note n1 while both
\* sockets are in the room; the error reached s2 only.
C1_Witness ==
  /\ lastOp.op = "update:forbidden"
  /\ lastOp.sid = "s2"
  /\ lastOp.noteId = "n1"
  /\ RoomMembers("n1") = {"s1", "s2"}
  /\ \E e \in emitted : e.ev = "error" /\ e.to = {"s2"}

\* C2: a socket whose disconnect handler has run has no entry in any room of
\* the presence registry.
C2_NoPresenceAfterDisconnect ==
  \A s \in Sessions : conn[s] = "closed" =>
    \A n \in NoteIds : s \notin RoomMembers(n)

\* C3: every room in the registry has at least one member; a room appears
\* only in the step of a successful join-note for it and disappears only in a
\* leave-note or disconnect step.
C3_NoEmptyRoom ==
  /\ [](\A i \in DOMAIN roomPresence : Len(roomPresence[i].v) > 0)
  /\ [][\A n \in NoteIds :
          /\ (~MapHas(roomPresence, n) /\ MapHas(roomPresence', n))
               => (lastOp'.op = "join:joined" /\ lastOp'.noteId = n)
          /\ (MapHas(roomPresence, n) /\ ~MapHas(roomPresence', n))
               => lastOp'.op \in {"leave", "disconnect"}]_vars

\* C3 witness: the last member of a room has just left it with leave-note and
\* the room is gone from the registry.
C3_Witness ==
  /\ lastOp.op = "leave"
  /\ lastOp.member
  /\ ~MapHas(roomPresence, lastOp.noteId)

\* C4: an accepted and persisted note-update of the owner is echoed to the
\* owner's own socket: that socket is among the receivers of the note-updated
\* broadcast, whether or not it had joined the room.
C4_OwnerReceivesEcho ==
  (lastOp.op = "update:broadcast" /\ conn[lastOp.sid] = "connected")
    => \E e \in emitted : e.ev = "note-updated" /\ lastOp.sid \in e.to

\* C5: a note-updated event is emitted only in the step in which a note-update
\* handler resumes from a write that succeeded, for the same note and with the
\* same content, and a write that succeeded has put that content in the note's
\* row; a handler whose write failed ends without emitting anything.
C5_BroadcastOnlyAfterWrite ==
  /\ [][\A e \in emitted' : e.ev = "note-updated" =>
          \E h \in pending :
            /\ Resumes(h)
            /\ h.h = "update" /\ h.at = "update" /\ h.ok
            /\ h.noteId = e.room /\ h.content = e.content]_vars
  /\ [][\A h \in pending' \ pending :
          (h.at = "update" /\ h.ok)
            => (h.noteId \in DOMAIN notes' /\ notes'[h.noteId].content = h.content)]_vars
  /\ [][\A h \in pending :
          (h.at = "update" /\ ~h.ok /\ Resumes(h)) => emitted' = {}]_vars

\* C5 witness: the write of an owner's update failed because the note had been
\* deleted after the ownership lookup; the handler ended while another socket
\* sits in the room, and nothing was emitted.
C5_Witness ==
  /\ lastOp.op = "update:throw"
  /\ lastOp.noteId \notin DOMAIN notes
  /\ RoomMembers(lastOp.noteId) \cap Live(conn) # {}
  /\ emitted = {}

\* C6: when the write of an owner's note-update fails, the calling socket is
\* sent an error event (and nobody else is sent anything).
C6_WriteFailureReported ==
  lastOp.op = "update:throw" =>
    /\ \E e \in emitted : e.ev = "error" /\ e.sock = lastOp.sid
    /\ \A e \in emitted : e.to \subseteq {lastOp.sid}

\* C7: events of one connection take effect in the order sent: when a
\* join-note(D) completes after a leave-note(D) that the same socket sent later
\* (and no join-note(D) was sent after that), the socket is not a member of D.
C7_JoinThenLeaveNotMember ==
  (lastOp.op = "join:joined" /\ lastOp.overtaken)
    => lastOp.sid \notin RoomMembers(lastOp.noteId)

\* C8: a successful join-note(D) delivers one presence-update to every socket
\* in the registry's member map of D, the joiner included, listing exactly the
\* entries of that map.
C8_PresenceToEveryMember ==
  lastOp.op = "join:joined" =>
    \E e \in emitted :
      /\ e.ev = "presence-update"
      /\ e.room = lastOp.noteId
      /\ e.to = RoomMembers(lastOp.noteId)
      /\ e.users = MapValues(MapGet(roomPresence, lastOp.noteId))
      /\ Len(e.users) = Cardinality(RoomMembers(lastOp.noteId))

\* C9: a room never holds two entries for one socket, and a join-note by a
\* socket that already has its entry in the room leaves the registry as it was.
C9_JoinIdempotent ==
  /\ [](\A i \in DOMAIN roomPresence :
          Cardinality(MapKeys(roomPresence[i].v)) = Len(roomPresence[i].v))
  /\ [][\A h \in pending :
          (/\ h.h = "join"
           /\ h.found
           /\ Resumes(h)
           /\ InRoom(roomPresence, h.noteId, h.sid))
          => roomPresence' = roomPresence]_vars

\* C9 witness: a socket that was already in the room has joined it again.
C9_Witness ==
  /\ lastOp.op = "join:joined"
  /\ lastOp.member
  /\ Cardinality(RoomMembers(lastOp.noteId)) = 2

\* C10: a join-note whose lookup found no note leaves the registry and the
\* Socket.IO rooms unchanged and emits exactly one event, the error, to the
\* calling socket.
C10_JoinMissingNote ==
  [][\A h \in pending :
       (h.h = "join" /\ ~h.found /\ Resumes(h))
       => /\ roomPresence' = roomPresence
          /\ ioRooms' = ioRooms
          /\ emitted' = {SocketEmitError(h.sid, "Note not found", Live(conn))}]_vars

\* C10 witness: a connected socket was refused the join of a deleted note and
\* received the error; no room exists for the note.
C10_Witness ==
  /\ lastOp.op = "join:notfound"
  /\ ~MapHas(roomPresence, lastOp.noteId)
  /\ \E e \in emitted : e.ev = "error" /\ e.to = {lastOp.sid}

\* C11: a note-update whose lookup found no note ends in that step: it emits
\* exactly one event, the error, to the calling socket, leaves the note table
\* unchanged and never reaches the write or the note-updated broadcast.
C11_UpdateMissingNote ==
  [][\A h \in pending :
       (h.h = "update" /\ h.at = "findUnique" /\ ~h.found /\ Resumes(h))
       => /\ notes' = notes
          /\ pending' = pending \ {h}
          /\ emitted' = {SocketEmitError(h.sid, "Note not found", Live(conn))}]_vars

\* C11 witness: a connected socket in the room of n1 was refused the update of
\* n1, deleted meanwhile, and received the error; another socket is in the room.
C11_Witness ==
  /\ lastOp.op = "update:notfound"
  /\ lastOp.noteId \notin DOMAIN notes
  /\ RoomMembers(lastOp.noteId) = Sessions
  /\ \E e \in emitted : e.ev = "error" /\ e.to = {lastOp.sid}

\* C12: after leave-note(D) by a member of room D the socket has no entry in
\* D; if other members remain, each of them and not the leaver receives one
\* presence-update listing exactly the remaining entries; if none remain the
\* room is deleted and nothing is emitted.
C12_LeaveByMember ==
  (lastOp.op = "leave" /\ lastOp.member) =>
    /\ lastOp.sid \notin RoomMembers(lastOp.noteId)
    /\ IF MapHas(roomPresence, lastOp.noteId)
         THEN emitted =
                {Event("presence-update", "", lastOp.noteId,
                       RoomMembers(lastOp.noteId),
                       MapValues(MapGet(roomPresence, lastOp.noteId)),
                       "", "", "", "")}
         ELSE emitted = {}

\* C13: a leave-note(D) from a socket that has no entry in room D changes
\* nothing in the registry and emits no event to anyone.
C13_LeaveByNonMember ==
  (lastOp.op = "leave" /\ ~lastOp.member) => emitted = {}

\* C14: the disconnect of a socket removes its entry from every room it was
\* in; each such room left empty is deleted, the remaining members of each
\* other such room receive one presence-update listing the remaining entries,
\* and the rooms the socket was not in are unchanged and receive nothing.
C14_DisconnectLeavesAllRooms ==
  [][lastOp'.op = "disconnect" =>
       LET s == lastOp'.sid IN
       \A n \in NoteIds :
         IF InRoom(roomPresence, n, s)
           THEN LET rest == MapDelete(MapGet(roomPresence, n), s) IN
                IF rest = <<>>
                  THEN /\ ~MapHas(roomPresence', n)
                       /\ \A e \in emitted' : e.room # n
                  ELSE /\ MapHas(roomPresence', n)
                       /\ MapGet(roomPresence', n) = rest
                       /\ \A e \in emitted' : e.room = n =>
                            e = Event("presence-update", "", n, MapKeys(rest),
                                      MapValues(rest), "", "", "", "")
                       /\ \E e \in emitted' : e.room = n
           ELSE /\ MapHas(roomPresence', n) = MapHas(roomPresence, n)
                /\ MapHas(roomPresence, n)
                     => MapGet(roomPresence', n) = MapGet(roomPresence, n)
                /\ \A e \in emitted' : e.room # n]_vars

\* C16: an accepted note-update of the owner writes the given content to the
\* note's row and the title only when the payload has one, leaving the rest of
\* the table as it was, and then emits one note-updated carrying that content,
\* that title and the author's name to every member of the note's room.
C16_UpdateWritesAndBroadcasts ==
  [][\A h \in pending :
       (h.h = "update" /\ Resumes(h)) =>
         /\ (h.at = "findUnique" /\ h.noteId \in DOMAIN notes /\ h.found
               /\ h.ownerId = socketUser[h.sid].userId)
              => /\ DOMAIN notes' = DOMAIN notes
                 /\ \A n \in DOMAIN notes \ {h.noteId} : notes'[n] = notes[n]
                 /\ notes'[h.noteId].content = h.content
                 /\ notes'[h.noteId].ownerId = notes[h.noteId].ownerId
                 /\ notes'[h.noteId].title =
                      IF h.title = Undefined THEN notes[h.noteId].title
                                             ELSE h.title
         /\ (h.at = "update" /\ h.ok)
              => emitted' =
                   {Event("note-updated", "", h.noteId, RoomMembers(h.noteId),
                          <<>>, h.content, h.title, socketUser[h.sid].name, "")}]_vars

\* C17: whenever no note-update for a note is in flight, the content of the
\* latest note-updated broadcast for it is the note's stored content.
C17_BroadcastIsLatestWrite ==
  (/\ lastOp.op = "update:broadcast"
   /\ lastOp.noteId \in DOMAIN notes
   /\ ~\E h \in pending : h.h = "update" /\ h.noteId = lastOp.noteId)
  => \A e \in emitted :
       e.ev = "note-updated" => e.content = notes[lastOp.noteId].content

\* C18: events are handled one at a time to completion: while a join-note or
\* note-update handler has started and not ended, the last step taken is a
\* step of that very handler (a handshake of another connection apart).
C18_RunToCompletion ==
  \A h \in pending :
    \/ lastOp.op \in {"connect", "refuse", "dropped"}
    \/ /\ lastOp.sid = h.sid
       /\ lastOp.noteId = h.noteId
       /\ lastOp.op = (IF h.h = "join" THEN "join:start"
                       ELSE IF h.at = "findUnique" THEN "update:start"
                       ELSE "update:write")

\* C15: a connection whose token is missing, does not verify, or names a
\* user that has no row is never accepted: it gets no socket.user, no handler
\* of it is ever pending, it is never put in a room or in the registry, and
\* a join-note, leave-note or note-update sent on it leaves the registry, the
\* rooms and the note table as they were and emits nothing.
C15_BadTokenRefused ==
  [][\A s \in Sessions :
       (\/ token[s].sig # "signed"
        \/ token[s].userId \notin Users)
       => /\ conn'[s] \in {"connecting", "refused"}
          /\ socketUser'[s] = NoUser
          /\ \A h \in pending' : h.sid # s
          /\ \A n \in NoteIds : s \notin ioRooms'[n] /\ ~InRoom(roomPresence', n, s)
          /\ lastOp'.sid = s
               => /\ lastOp'.op \in {"refuse", "dropped"}
                  /\ notes' = notes
                  /\ roomPresence' = roomPresence
                  /\ ioRooms' = ioRooms
                  /\ pending' = pending
                  /\ \A e \in emitted' : e.ev = "connect_error" /\ e.to = {s}
                  /\ lastOp'.op = "dropped" => emitted' = {}]_vars

\* a refused connection of a deleted user has sent an event for a note whose
\* room has a member
C15_Witness ==
  /\ lastOp.op = "dropped"
  /\ conn[lastOp.sid] = "refused"
  /\ token[lastOp.sid] = [sig |-> "signed", userId |-> DeletedUser]
  /\ RoomMembers(lastOp.noteId) # {}

\* C19: a rejected lookup or write inside a join-note or note-update handler
\* is caught at the handler's boundary: the process keeps running.
C19_ProcessSurvivesHandlerError ==
  process = "running"

\* The scenario: A is "s1", the owner of D = "n1"; B is "s2".
ScenarioA == PresenceUserOf(socketUser["s1"])
ScenarioB == PresenceUserOf(socketUser["s2"])
ScenarioRoom(members) == <<[k |-> "n1", v |-> members]>>
ScenarioRoomA  == ScenarioRoom(<<[k |-> "s1", v |-> ScenarioA]>>)
ScenarioRoomAB == ScenarioRoom(<<[k |-> "s1", v |-> ScenarioA],
                                 [k |-> "s2", v |-> ScenarioB]>>)
ScenarioRoomB  == ScenarioRoom(<<[k |-> "s2", v |-> ScenarioB]>>)
ScenarioPresence(to, users) ==
  Event("presence-update", "", "n1", to, users, "", "", "", "")

\* the one handler in flight, started in the state the scenario is in
ScenarioOnly(h, kind, sid) ==
  /\ pending = {h}
  /\ h.h = kind /\ h.sid = sid /\ h.noteId = "n1"
  /\ h.found /\ h.ownerId = "uA"
  /\ ~h.overtaken
  /\ Resumes(h)

\* both A and B are in D's room, in the order they joined
ScenarioBothJoined ==
  /\ conn = [s \in Sessions |-> "connected"]
  /\ roomPresence = ScenarioRoomAB
  /\ ioRooms["n1"] = {"s1", "s2"}

\* C20: the scenario, run one event at a time: A joins D and gets
\* presence-update [A]; B joins, A and B get presence-update [A, B]; B's
\* update gets B an error, no note-updated, and no write; A's update with
\* content X is written and A and B get note-updated with X and A's name; A
\* disconnects and B gets presence-update [B]; B disconnects and D's room is
\* gone from the registry.
C20_Scenario ==
  [][/\ \A h \in pending :
          \* A joins
          /\ (/\ ScenarioOnly(h, "join", "s1")
              /\ conn["s1"] = "connected"
              /\ roomPresence = <<>> /\ ioRooms["n1"] = {})
             => /\ roomPresence' = ScenarioRoomA
                /\ emitted' = {ScenarioPresence({"s1"}, <<ScenarioA>>)}
          \* B joins
          /\ (/\ ScenarioOnly(h, "join", "s2")
              /\ conn = [s \in Sessions |-> "connected"]
              /\ roomPresence = ScenarioRoomA /\ ioRooms["n1"] = {"s1"})
             => /\ roomPresence' = ScenarioRoomAB
                /\ emitted' = {ScenarioPresence({"s1", "s2"},
                                                <<ScenarioA, ScenarioB>>)}
          \* B updates
          /\ (/\ ScenarioOnly(h, "update", "s2")
              /\ h.at = "findUnique"
              /\ ScenarioBothJoined)
             => /\ notes' = notes
                /\ pending' = {}
                /\ emitted' = {SocketEmitError("s2",
                                 "Only the owner can edit this note", {"s2"})}
          \* A updates with content X: the write
          /\ (/\ ScenarioOnly(h, "update", "s1")
              /\ h.at = "findUnique" /\ h.content = "X"
              /\ "n1" \in DOMAIN notes
              /\ ScenarioBothJoined)
             => /\ notes'["n1"].content = "X"
                /\ emitted' = {}
                /\ \E g \in pending' : g.at = "update" /\ g.ok
          \* A updates with content X: the broadcast
          /\ (/\ ScenarioOnly(h, "update", "s1")
              /\ h.at = "update" /\ h.ok /\ h.content = "X"
              /\ ScenarioBothJoined)
             => emitted' = {Event("note-updated", "", "n1", {"s1", "s2"}, <<>>,
                                  "X", h.title, "Alice", "")}
     \* A disconnects
     /\ (/\ pending = {} /\ ScenarioBothJoined
         /\ conn'["s1"] = "closed")
        => /\ roomPresence' = ScenarioRoomB
           /\ emitted' = {ScenarioPresence({"s2"}, <<ScenarioB>>)}
     \* B disconnects
     /\ (/\ pending = {}
         /\ conn["s1"] = "closed" /\ conn["s2"] = "connected"
         /\ roomPresence = ScenarioRoomB /\ ioRooms["n1"] = {"s2"}
         /\ conn'["s2"] = "closed")
        => /\ ~MapHas(roomPresence', "n1")
           /\ emitted' = {}]_vars

\* A has joined, B has joined, A's update with X is stored, and A has just
\* disconnected: B alone got presence-update [B]
C20_Witness ==
  /\ lastOp.op = "disconnect" /\ lastOp.sid = "s1"
  /\ pending = {}
  /\ "n1" \in DOMAIN notes
  /\ notes["n1"].content = "X"
  /\ conn["s2"] = "connected"
  /\ roomPresence = ScenarioRoomB
  /\ emitted = {ScenarioPresence({"s2"}, <<ScenarioB>>)}

\* C24: the note-updated of an accepted update goes to the sessions that are
\* connected and registered in the note's room when it is emitted, after the
\* write: a session that left or disconnected meanwhile is not among them, a
\* session whose join completed meanwhile is.
C24_FanOutAtEmit ==
  [][\A h \in pending :
       (h.h = "update" /\ h.at = "update" /\ h.ok /\ Resumes(h))
       => \E e \in emitted' :
            /\ emitted' = {e}
            /\ e.ev = "note-updated"
            /\ e.to = {s \in Sessions : /\ conn[s] = "connected"
                                        /\ InRoom(roomPresence, h.noteId, s)}]_vars

\* the sender disconnected while its write was in flight: the broadcast went
\* to the other session alone
C24_Witness ==
  /\ lastOp.op = "update:broadcast"
  /\ conn[lastOp.sid] = "closed"
  /\ \E e \in emitted : e.ev = "note-updated" /\ e.to = Sessions \ {lastOp.sid}

\* C25: once a session's disconnect has been processed, a handler the session
\* started earlier writes nothing to the note table, adds nothing to the
\* registry and broadcasts nothing.
C25_NoEffectAfterDisconnect ==
  [][\A h \in pending :
       (Resumes(h) /\ conn[h.sid] = "closed")
       => /\ notes' = notes
          /\ roomPresence' = roomPresence
          /\ \A e \in emitted' : e.ev \notin {"presence-update", "note-updated"}]_vars

\* C27: for every note, the connected sockets of its Socket.IO room are the
\* keys of its member map in the registry.
C27_RoomsMatchRegistry ==
  \A n \in NoteIds : RoomSockets(ioRooms, n, Live(conn)) = RoomMembers(n)

\* C28: whenever no join-note handler is in flight, every connected member
\* of a room holds, as its last presence-update for the room, the room's
\* present member entries, and every one of these is a connected session's.
C28_PresenceConverges ==
  (~\E h \in pending : h.h = "join")
  => \A n \in NoteIds, s \in Sessions :
       (conn[s] = "connected" /\ s \in RoomMembers(n))
       => /\ lastPresence[s][n] = MapValues(MapGet(roomPresence, n))
          /\ \A k \in RoomMembers(n) : conn[k] = "connected"

C26_HandshakeEnds ==
  \A s \in Sessions : conn[s] # "stalled"

\* The page of s is at rest: no timeout runs, isLocalChange is clear, no
\* note-update of s is being handled and no note-updated is on its way to it.
AtRest(s) ==
  /\ editor[s].saveTimer = NoTimer
  /\ editor[s].resetTimers = 0
  /\ ~editor[s].isLocalChange
  /\ inbox[s] = <<>>
  /\ ~\E h \in pending : h.sid = s

\* C22: once the owner has stopped changing the document and the page is at
\* rest, the last note-update the page emitted carries the content after
\* the owner's last change.
C22_LastChangeSent ==
  \A s \in Sessions :
    (IsOwner(s) /\ editor[s].typed # "" /\ AtRest(s))
    => editor[s].sent = editor[s].typed

\* C23: when a note-updated with content reaches the client of a joined
\* session, the client's editor takes that content.
C23_EditorSyncs ==
  [][\A s \in Sessions :
       (/\ inbox[s] # <<>>
        /\ inbox'[s] = Tail(inbox[s])
        /\ Head(inbox[s]).content # ""
        /\ InRoom(roomPresence, EditorNote, s))
       => editor'[s].content = Head(inbox[s]).content]_vars


\* C30: a socket that getSocket() returns was created with the token that
\* localStorage holds at that moment.
C30_SocketOfStoredToken ==
  (app.step = "getSocket" /\ app.returned # NoSocket)
    => app.returned.auth = localStorage

\* C29: while a note's editor page is open and the client's socket is
\* connected, with nothing left in its send buffer and no join-note of the
\* page still being handled,
\* the socket's session is a member of the note's room.
C29_MemberWhileOpen ==
  (/\ app.page # ""
   /\ socket.session # ""
   /\ process = "running"
   /\ app.page \in DOMAIN notes
   /\ socket.buffer = <<>>
   /\ ~ \E h \in pending :
          h.h = "join" /\ h.sid = socket.session /\ h.noteId = app.page)
    => /\ socket.session \in RoomMembers(app.page)
       /\ socket.session \in ioRooms[app.page]

====
